---- MODULE Spec2Model ----
(***************************************************************************)
(* A model of the gothite window manager (src/src/main.rs).                *)
(*                                                                         *)
(* The manager is one sequential loop: it takes the next X event and runs  *)
(* the handler of its kind.  The model keeps the manager's own state (the  *)
(* HashMap `windows`, the raw pointer `active_window`, the anchor          *)
(* `drag_start`), the part of the X server's state the handlers read and   *)
(* write (the window tree, geometry, map state, save-set, stacking order), *)
(* and the cairo objects the manager owns.  Every handler is translated    *)
(* into the list of Xlib/cairo calls it makes, in source order; the server *)
(* applies them one after the other.                                       *)
(***************************************************************************)
EXTENDS Integers, Sequences, FiniteSets, TLC

VARIABLES
    windows,        \* WindowManager.windows : HashMap<xlib::Window, Window>
    drag_start,     \* WindowManager.drag_start
    active_window,  \* WindowManager.active_window : *const Window, as the key of
                    \* the map value it addresses (or NullPtr, or Dangling)
    pc,             \* "start" before the startup scan, "loop", or "panicked"
    server,         \* the X server's window tree, save-set and stacking order
    cairo,          \* the cairo surface and context made for each container
    ev,             \* the event the loop took last: its type, its window, the
                    \* event field of an XUnmapEvent, and the keycode and state
                    \* of an XKeyEvent
    cmds,           \* the Xlib and cairo calls the last handler made, in order
    gesture,        \* history: the button press that opened the current gesture
    presses,        \* history: how many button presses opened a gesture so far
    queue,          \* the events delivered to the connection and not yet taken
    delivered,      \* history: how many events were delivered to the queue so far
    taken,          \* the event the loop handled last when it took it from the
                    \* queue, and how many pending motion events it skipped
    strict          \* reference: the manager's state had it handled every
                    \* delivered event on its own, in delivered order

vars == <<windows, drag_start, active_window, pc, server, cairo, ev, cmds,
          gesture, presses, queue, delivered, taken, strict>>

----------------------------------------------------------------------------
(* Bounds of the model *)

NClients == 2
MaxFrames == 2
MaxGestures == 1
MaxQueue == 3

----------------------------------------------------------------------------
(* Program constants *)

DECORATION_PADDING == 10
MinimumSize == 10

----------------------------------------------------------------------------
(* Identifiers *)

Root == 0
Clients == 1..NClients
FrameIds == (NClients + 1)..(NClients + MaxFrames)
WindowIds == Root..(NClients + MaxFrames)

\* What the raw pointer active_window may hold: the address of the value the map
\* keeps for a key (written as that key), the null pointer, or an address where
\* the map keeps no value (freed or foreign memory).
NullPtr == 0
\* The input focus when no window has it: PointerRoot, no window's id
PointerRoot == 0 - 2
Dangling == 0 - 1
Pointers == Dangling..NClients

RECURSIVE SeqOfSet(_)
SeqOfSet(S) ==
    IF S = {} THEN <<>>
    ELSE LET m == CHOOSE a \in S : \A b \in S : a <= b
         IN <<m>> \o SeqOfSet(S \ {m})

Remove(seq, x) == SelectSeq(seq, LAMBDA y : y /= x)

Max(a, b) == IF a >= b THEN a ELSE b

\* Vector2D
Vec(a, b) == [x |-> a, y |-> b]
VAdd(u, v) == [x |-> u.x + v.x, y |-> u.y + v.y]
VSub(u, v) == [x |-> u.x - v.x, y |-> u.y - v.y]

\* A window dimension and a window coordinate as the protocol carries them
\* (CARD16, INT16)
Card16(v) == v % 65536
Int16(v) == ((v + 32768) % 65536) - 32768

\* a & m for a mask m of one bit (m a power of two)
And(a, m) == ((a \div m) % 2) * m

\* Bits of an event's state and of a configure request's value_mask (X.h)
Button1Mask == 256
Button3Mask == 1024
Mod1Mask == 8
CWX == 1
CWY == 2
CWWidth == 4
CWHeight == 8

----------------------------------------------------------------------------
(* The X server: what the Xlib calls of the handlers read and change *)

\* A window nobody created yet, or that is gone, has no geometry.
NoWindow(st) ==
    [state |-> st, parent |-> Root, x |-> 0, y |-> 0, width |-> 0, height |-> 0,
     mapped |-> FALSE, override_redirect |-> FALSE]

Live(s, w) == w = Root \/ (w \in DOMAIN s.win /\ s.win[w].state = "live")

\* XQueryTree's children list: bottom-most first for the root
ChildrenOf(s, p) ==
    IF p = Root THEN s.stack
    ELSE SeqOfSet({c \in DOMAIN s.win : s.win[c].state = "live" /\ s.win[c].parent = p})

XQueryTree(s, w) ==
    IF Live(s, w) THEN [status |-> 1, children |-> ChildrenOf(s, w)]
    ELSE [status |-> 0, children |-> <<>>]

\* map_state == IsViewable: the window and its ancestors are mapped
IsViewable(s, w) ==
    /\ s.win[w].mapped
    /\ s.win[w].parent = Root \/ s.win[s.win[w].parent].mapped

\* The id XCreateWindow hands out next: Xlib allocates it, whatever the server answers.
NextId(s) == CHOOSE f \in FrameIds :
                 /\ s.win[f].state = "unborn"
                 /\ \A g \in FrameIds : s.win[g].state = "unborn" => f <= g

\* Whether the server refuses the call (BadWindow, BadValue, BadAlloc, BadMatch)
Refused(s, c) ==
    CASE c.op = "XCreateWindow" ->
            \/ ~c.alloc_ok
            \/ Card16(c.width) = 0 \/ Card16(c.height) = 0
      [] c.op = "XReparentWindow" -> ~Live(s, c.w) \/ ~Live(s, c.parent)
      [] c.op = "XResizeWindow" ->
            ~Live(s, c.w) \/ Card16(c.width) = 0 \/ Card16(c.height) = 0
      [] c.op \in {"XMapWindow", "XUnmapWindow", "XDestroyWindow", "XMoveWindow",
                   "XConfigureWindow", "XRaiseWindow", "XAddToSaveSet",
                   "XRemoveFromSaveSet", "XGrabButton", "XGrabKey", "XSendEvent",
                   "XKillClient"} -> ~Live(s, c.w)
      [] c.op = "XSetInputFocus" -> ~Live(s, c.w) \/ ~IsViewable(s, c.w)
      [] OTHER -> FALSE

Restacked(s, w, parent) ==
    LET without == Remove(s.stack, w)
    IN IF parent = Root THEN Append(without, w) ELSE without

\* XDestroyWindow: the window goes, and with it its children, except those in the
\* save-set, which the server reparents to the root and maps.
Destroyed(s, f) ==
    LET kids == {c \in DOMAIN s.win : c /= f /\ s.win[c].state = "live" /\ s.win[c].parent = f}
        saved == kids \cap s.save_set
        win2 == [w \in DOMAIN s.win |->
                    IF w = f \/ w \in kids \ saved THEN NoWindow("destroyed")
                    ELSE IF w \in saved
                         THEN [s.win[w] EXCEPT !.parent = Root,
                                               !.x = s.win[f].x + @,
                                               !.y = s.win[f].y + @,
                                               !.mapped = TRUE]
                         ELSE s.win[w]]
    IN [s EXCEPT !.win = win2,
                 !.stack = Remove(s.stack, f) \o SeqOfSet(saved),
                 !.save_set = @ \ (kids \ saved)]

Configured(s, c) ==
    [s EXCEPT !.win[c.w] =
        [@ EXCEPT !.x = IF And(c.value_mask, CWX) /= 0 THEN c.changes.x ELSE @,
                  !.y = IF And(c.value_mask, CWY) /= 0 THEN c.changes.y ELSE @,
                  !.width = IF And(c.value_mask, CWWidth) /= 0 THEN c.changes.width ELSE @,
                  !.height = IF And(c.value_mask, CWHeight) /= 0 THEN c.changes.height ELSE @]]

\* What one request does to the server's state
XRequest(s, c) ==
    IF c.op = "XCreateWindow" /\ Refused(s, c)
    THEN [s EXCEPT !.win[c.id] = NoWindow("failed")]
    ELSE IF Refused(s, c) THEN s
    ELSE CASE c.op = "XCreateWindow" ->
                [s EXCEPT !.win[c.id] =
                              [state |-> "live", parent |-> Root, x |-> c.x, y |-> c.y,
                               width |-> Card16(c.width), height |-> Card16(c.height),
                               mapped |-> FALSE, override_redirect |-> FALSE],
                          !.stack = Append(@, c.id)]
           [] c.op = "XReparentWindow" ->
                [s EXCEPT !.win[c.w] = [@ EXCEPT !.parent = c.parent, !.x = c.x, !.y = c.y],
                          !.stack = Restacked(s, c.w, c.parent)]
           [] c.op = "XMapWindow" -> [s EXCEPT !.win[c.w].mapped = TRUE]
           [] c.op = "XUnmapWindow" -> [s EXCEPT !.win[c.w].mapped = FALSE]
           [] c.op = "XDestroyWindow" -> Destroyed(s, c.w)
           [] c.op = "XAddToSaveSet" -> [s EXCEPT !.save_set = @ \cup {c.w}]
           [] c.op = "XRemoveFromSaveSet" -> [s EXCEPT !.save_set = @ \ {c.w}]
           [] c.op = "XMoveWindow" ->
                [s EXCEPT !.win[c.w] = [@ EXCEPT !.x = Int16(c.x), !.y = Int16(c.y)]]
           [] c.op = "XResizeWindow" ->
                [s EXCEPT !.win[c.w] = [@ EXCEPT !.width = Card16(c.width),
                                                 !.height = Card16(c.height)]]
           [] c.op = "XConfigureWindow" -> Configured(s, c)
           [] c.op = "XKillClient" -> Destroyed(s, c.w)
           [] c.op = "XRaiseWindow" ->
                IF s.win[c.w].parent = Root
                THEN [s EXCEPT !.stack = Append(Remove(@, c.w), c.w)]
                ELSE s
           [] c.op = "XSetInputFocus" -> [s EXCEPT !.focus = c.w]
           [] OTHER -> s

\* RevertToPointerRoot: when the focus window stops being viewable the focus
\* goes to PointerRoot
FocusReverted(s) ==
    IF s.focus /= PointerRoot /\ ~IsViewable(s, s.focus)
    THEN [s EXCEPT !.focus = PointerRoot]
    ELSE s

XApply(s, c) == FocusReverted(XRequest(s, c))

\* The cairo objects after one call.  A surface or context is "live" from its
\* creation to its destroy call; a second destroy is recorded as "double".
CairoApply(k, c) ==
    CASE c.op = "cairo_xlib_surface_create" -> [k EXCEPT ![c.id].surface = "live"]
      [] c.op = "cairo_create" -> [k EXCEPT ![c.id].context = "live"]
      [] c.op = "cairo_surface_destroy" ->
            [k EXCEPT ![c.id].surface = IF @ = "live" THEN "destroyed" ELSE "double"]
      [] c.op = "cairo_destroy" ->
            [k EXCEPT ![c.id].context = IF @ = "live" THEN "destroyed" ELSE "double"]
      [] OTHER -> k

----------------------------------------------------------------------------
(* The manager's handlers.  Each takes the world W (the manager's state, the *)
(* server's and cairo's) and returns the world after it has run.             *)

World ==
    [windows |-> windows, drag_start |-> drag_start,
     active_window |-> active_window, pc |-> pc, server |-> server,
     cairo |-> cairo, cmds |-> <<>>]

\* One Xlib or cairo call: logged, and applied by the server or by cairo
Call(W, c) ==
    [W EXCEPT !.server = XApply(@, c), !.cairo = CairoApply(@, c), !.cmds = Append(@, c)]

RECURSIVE Calls(_, _)
Calls(W, cs) == IF cs = <<>> THEN W ELSE Calls(Call(W, Head(cs)), Tail(cs))

\* HashMap::insert and HashMap::remove may move the values the map keeps (a
\* rehash, a displaced or back-shifted bucket), so an address taken before may
\* afterwards hold the value of any key, or none: o.lands.  Null stays null.
Rehashed(ptr, keys, o) ==
    IF ptr = NullPtr THEN NullPtr
    ELSE IF o.lands \in keys THEN o.lands ELSE Dangling

\* XGetWindowAttributes: the window's attributes, or what the uninitialized
\* struct held when the call fails
XGetWindowAttributes(s, w, garbage) ==
    IF w /= Root /\ Live(s, w)
    THEN [x |-> s.win[w].x, y |-> s.win[w].y, width |-> s.win[w].width,
          height |-> s.win[w].height,
          override_redirect |-> s.win[w].override_redirect,
          viewable |-> IsViewable(s, w)]
    ELSE garbage

bind_window_button(w, b) == [op |-> "XGrabButton", w |-> w, button |-> b]

bind_window_key(w, k) == [op |-> "XGrabKey", w |-> w, key |-> k]

\* create_window_frame padding the container once, not on both sides
create_window_frame_padded_once(W, w, early, o) ==
    LET attrs == XGetWindowAttributes(W.server, w, o.garbage)
        frame == NextId(W.server)
        W1 == Calls(W, <<
                [op |-> "XCreateWindow", id |-> frame, x |-> attrs.x, y |-> attrs.y,
                 width |-> attrs.width + DECORATION_PADDING,
                 height |-> attrs.height + DECORATION_PADDING,
                 alloc_ok |-> o.alloc_ok],
                bind_window_button(w, "Button1"),
                bind_window_button(w, "Button3"),
                bind_window_key(w, "XK_F4"),
                bind_window_key(w, "XK_Tab"),
                [op |-> "XAddToSaveSet", w |-> w],
                [op |-> "XReparentWindow", w |-> w, parent |-> frame,
                 x |-> DECORATION_PADDING, y |-> DECORATION_PADDING],
                [op |-> "XMapWindow", w |-> frame],
                [op |-> "cairo_xlib_surface_create", id |-> frame],
                [op |-> "cairo_create", id |-> frame] >>)
        win == [frame |-> frame, decoration_surface |-> frame,
                decoration_context |-> frame,
                drag_start |-> Vec(0, 0), drag_start_size |-> Vec(0, 0)]
        keys == DOMAIN W.windows \cup {w}
    IN IF early /\ (attrs.override_redirect \/ ~attrs.viewable)
       THEN W
       ELSE [W1 EXCEPT !.windows = [k \in keys |-> IF k = w THEN win ELSE W.windows[k]],
                       !.active_window = Rehashed(W.active_window, keys, o)]

create_window_frame(W, w, early, o) ==
    LET attrs == XGetWindowAttributes(W.server, w, o.garbage)
        frame == NextId(W.server)
        W1 == Calls(W, <<
                [op |-> "XCreateWindow", id |-> frame, x |-> attrs.x, y |-> attrs.y,
                 width |-> attrs.width + (DECORATION_PADDING * 2),
                 height |-> attrs.height + (DECORATION_PADDING * 2),
                 alloc_ok |-> o.alloc_ok],
                bind_window_button(w, "Button1"),
                bind_window_button(w, "Button3"),
                bind_window_key(w, "XK_F4"),
                bind_window_key(w, "XK_Tab"),
                [op |-> "XAddToSaveSet", w |-> w],
                [op |-> "XReparentWindow", w |-> w, parent |-> frame,
                 x |-> DECORATION_PADDING, y |-> DECORATION_PADDING],
                [op |-> "XMapWindow", w |-> frame],
                [op |-> "cairo_xlib_surface_create", id |-> frame],
                [op |-> "cairo_create", id |-> frame] >>)
        win == [frame |-> frame, decoration_surface |-> frame,
                decoration_context |-> frame,
                drag_start |-> Vec(0, 0), drag_start_size |-> Vec(0, 0)]
        keys == DOMAIN W.windows \cup {w}
    IN IF early /\ (attrs.override_redirect \/ ~attrs.viewable)
       THEN W
       ELSE [W1 EXCEPT !.windows = [k \in keys |-> IF k = w THEN win ELSE W.windows[k]],
                       !.active_window = Rehashed(W.active_window, keys, o)]

\* remove_window_frame without the contains_key test: get(..).unwrap() panics
remove_window_frame_unguarded(W, w, o) ==
    IF w \notin DOMAIN W.windows
    THEN [W EXCEPT !.pc = "panicked"]
    ELSE LET win == W.windows[w]
             W1 == Calls(W, <<
                     [op |-> "cairo_surface_destroy", id |-> win.decoration_surface],
                     [op |-> "cairo_destroy", id |-> win.decoration_context],
                     [op |-> "XUnmapWindow", w |-> win.frame],
                     [op |-> "XReparentWindow", w |-> w, parent |-> Root, x |-> 0, y |-> 0],
                     [op |-> "XRemoveFromSaveSet", w |-> w],
                     [op |-> "XDestroyWindow", w |-> win.frame] >>)
             keys == DOMAIN W.windows \ {w}
         IN [W1 EXCEPT !.windows = [k \in keys |-> W.windows[k]],
                       !.active_window = Rehashed(W.active_window, keys, o)]

remove_window_frame(W, w, o) ==
    IF w \notin DOMAIN W.windows
    THEN W
    ELSE LET win == W.windows[w]
             W1 == Calls(W, <<
                     [op |-> "cairo_surface_destroy", id |-> win.decoration_surface],
                     [op |-> "cairo_destroy", id |-> win.decoration_context],
                     [op |-> "XUnmapWindow", w |-> win.frame],
                     [op |-> "XReparentWindow", w |-> w, parent |-> Root, x |-> 0, y |-> 0],
                     [op |-> "XRemoveFromSaveSet", w |-> w],
                     [op |-> "XDestroyWindow", w |-> win.frame] >>)
             keys == DOMAIN W.windows \ {w}
         IN [W1 EXCEPT !.windows = [k \in keys |-> W.windows[k]],
                       !.active_window = Rehashed(W.active_window, keys, o)]

\* on_unmap_notify without the test of the event field
on_unmap_notify_any_event(W, e, o) ==
    IF e.window \notin DOMAIN W.windows
    THEN W
    ELSE remove_window_frame(
            Calls(W, <<
                [op |-> "XUnmapWindow", w |-> W.windows[e.window].frame],
                [op |-> "XReparentWindow", w |-> e.window, parent |-> Root,
                 x |-> 0, y |-> 0],
                [op |-> "XRemoveFromSaveSet", w |-> e.window],
                [op |-> "XDestroyWindow", w |-> W.windows[e.window].frame] >>),
            e.window, o)

\* on_unmap_notify destroying the container before it reparents the window
on_unmap_notify_destroy_first(W, e, o) ==
    IF e.window \notin DOMAIN W.windows
    THEN W
    ELSE IF e.event = Root
    THEN W
    ELSE remove_window_frame(
            Calls(W, <<
                [op |-> "XUnmapWindow", w |-> W.windows[e.window].frame],
                [op |-> "XRemoveFromSaveSet", w |-> e.window],
                [op |-> "XDestroyWindow", w |-> W.windows[e.window].frame],
                [op |-> "XReparentWindow", w |-> e.window, parent |-> Root,
                 x |-> 0, y |-> 0] >>),
            e.window, o)

on_unmap_notify(W, e, o) ==
    IF e.window \notin DOMAIN W.windows
    THEN W
    ELSE IF e.event = Root
    THEN W
    ELSE LET win == W.windows[e.window]
             W1 == Calls(W, <<
                     [op |-> "XUnmapWindow", w |-> win.frame],
                     [op |-> "XReparentWindow", w |-> e.window, parent |-> Root,
                      x |-> 0, y |-> 0],
                     [op |-> "XRemoveFromSaveSet", w |-> e.window],
                     [op |-> "XDestroyWindow", w |-> win.frame] >>)
         IN remove_window_frame(W1, e.window, o)

on_map_request(W, e, o) ==
    Call(create_window_frame(W, e.window, FALSE, o), [op |-> "XMapWindow", w |-> e.window])

\* resize_window without the floor of max(10, ..)
resize_window_unfloored(W, w, win, delta) ==
    LET new_dimension == VAdd(win.drag_start_size, delta)
        width == new_dimension.x + (DECORATION_PADDING * 2)
        height == new_dimension.y + (DECORATION_PADDING * 2)
    IN Calls(W, <<
         [op |-> "XResizeWindow", w |-> win.frame, width |-> width, height |-> height],
         [op |-> "XResizeWindow", w |-> w, width |-> new_dimension.x,
          height |-> new_dimension.y],
         [op |-> "cairo_xlib_surface_set_size", id |-> win.decoration_surface,
          width |-> width, height |-> height] >>)

resize_window(W, w, win, delta) ==
    LET sum == VAdd(win.drag_start_size, delta)
        new_dimension == Vec(Max(MinimumSize, sum.x), Max(MinimumSize, sum.y))
        width == new_dimension.x + (DECORATION_PADDING * 2)
        height == new_dimension.y + (DECORATION_PADDING * 2)
    IN Calls(W, <<
         [op |-> "XResizeWindow", w |-> win.frame, width |-> width, height |-> height],
         [op |-> "XResizeWindow", w |-> w, width |-> new_dimension.x,
          height |-> new_dimension.y],
         [op |-> "cairo_xlib_surface_set_size", id |-> win.decoration_surface,
          width |-> width, height |-> height] >>)

\* move_window adding the delta to where the container is now, not to where it
\* was at the press
move_window_cumulative(W, w, win, delta) ==
    LET new_position == VAdd(Vec(W.server.win[win.frame].x, W.server.win[win.frame].y),
                             delta)
    IN Call(W, [op |-> "XMoveWindow", w |-> win.frame,
                x |-> new_position.x, y |-> new_position.y])

move_window(W, w, win, delta) ==
    LET new_position == VAdd(win.drag_start, delta)
    IN Call(W, [op |-> "XMoveWindow", w |-> win.frame,
                x |-> new_position.x, y |-> new_position.y])

\* on_motion_notify without the comparison against active_window
on_motion_notify_any_window(W, e) ==
    IF e.window \notin DOMAIN W.windows
    THEN W
    ELSE LET win == W.windows[e.window]
             delta == VSub(Vec(e.x_root, e.y_root), W.drag_start)
         IN IF And(e.state, Mod1Mask) /= 0
            THEN IF And(e.state, Button1Mask) /= 0
                 THEN move_window(W, e.window, win, delta)
                 ELSE IF And(e.state, Button3Mask) /= 0
                      THEN resize_window(W, e.window, win, delta)
                      ELSE W
            ELSE W

on_motion_notify(W, e) ==
    IF e.window \notin DOMAIN W.windows
    THEN W
    ELSE LET win == W.windows[e.window]
             position == Vec(e.x_root, e.y_root)
             delta == VSub(position, W.drag_start)
         IN IF W.active_window /= e.window
            THEN W
            ELSE IF And(e.state, Mod1Mask) /= 0
                 THEN IF And(e.state, Button1Mask) /= 0
                      THEN move_window(W, e.window, win, delta)
                      ELSE IF And(e.state, Button3Mask) /= 0
                           THEN resize_window(W, e.window, win, delta)
                           ELSE W
                 ELSE W

\* XGetGeometry writes its out-parameters only when the drawable exists; the
\* handler initialised them to 0.
XGetGeometry(s, d) ==
    IF Live(s, d)
    THEN [x |-> s.win[d].x, y |-> s.win[d].y, w |-> s.win[d].width, h |-> s.win[d].height]
    ELSE [x |-> 0, y |-> 0, w |-> 0, h |-> 0]

on_button_press(W, e) ==
    IF e.window \notin DOMAIN W.windows
    THEN W
    ELSE LET win == W.windows[e.window]
             g == XGetGeometry(W.server, win.frame)
             W1 == Call(W, [op |-> "XRaiseWindow", w |-> win.frame])
         IN [W1 EXCEPT !.active_window = e.window,
                       !.drag_start = Vec(e.x_root, e.y_root),
                       !.windows[e.window].drag_start = Vec(g.x, g.y),
                       !.windows[e.window].drag_start_size = Vec(g.w, g.h)]

\* active_window = uninitialized(): whatever address the build leaves there
on_button_release(W, e, o) == [W EXCEPT !.active_window = o.uninit]

\* XQueryTree answers 0 when it fails (o.tree_ok is FALSE); the children of the
\* root come bottom-most first.
restack_windows(W, w, o) ==
    LET tree == IF o.tree_ok THEN XQueryTree(W.server, Root)
                ELSE [status |-> 0, children |-> <<>>]
        others == SelectSeq(tree.children, LAMBDA n : n /= w)
        W1 == Call(W, [op |-> "XQueryTree", w |-> Root, status |-> tree.status])
    IN IF tree.status /= 0 /\ others /= <<>>
       THEN Calls(W1, << [op |-> "XRaiseWindow", w |-> Head(others)],
                         [op |-> "XSetInputFocus", w |-> Head(others)] >>)
       ELSE W1

\* XGetWMProtocols answers o.protocols: its status and the atoms of WM_PROTOCOLS
can_kill_window_gracefully(W, w, o) ==
    IF o.protocols.status = 0 \/ ~Live(W.server, w)
    THEN FALSE
    ELSE o.protocols.has_delete_atom

\* The reply XGetWMProtocols gives for w: none for a window that is gone
WMProtocols(W, w, o) ==
    IF Live(W.server, w) THEN o.protocols ELSE [status |-> 0, has_delete_atom |-> FALSE]

\* kill_window terminating the client whatever WM_PROTOCOLS holds
kill_window_forced(W, w, o) ==
    Calls(W, << [op |-> "XGetWMProtocols", w |-> w, reply |-> WMProtocols(W, w, o)],
                [op |-> "XKillClient", w |-> w] >>)

kill_window(W, w, o) ==
    LET W1 == Call(W, [op |-> "XGetWMProtocols", w |-> w, reply |-> WMProtocols(W, w, o)])
    IN IF can_kill_window_gracefully(W, w, o)
       THEN Call(W1, [op |-> "XSendEvent", w |-> w, message_type |-> "WM_PROTOCOLS",
                      data |-> "WM_DELETE_WINDOW"])
       ELSE Call(W1, [op |-> "XKillClient", w |-> w])

on_key_press(W, e, o) ==
    IF e.window = Root
    THEN IF e.keycode = "XK_Tab" THEN restack_windows(W, e.window, o) ELSE W
    ELSE IF e.window \notin DOMAIN W.windows
    THEN W
    ELSE IF And(e.state, Mod1Mask) > 0
         THEN IF e.keycode = "XK_F4" THEN kill_window(W, e.window, o) ELSE W
         ELSE Call(W, [op |-> "XRaiseWindow", w |-> e.window])

on_configure_request(W, e) ==
    LET changes == [x |-> e.x, y |-> e.y, width |-> e.width, height |-> e.height]
        W1 == IF e.window \in DOMAIN W.windows
              THEN Call(W, [op |-> "XConfigureWindow", w |-> W.windows[e.window].frame,
                            value_mask |-> e.value_mask, changes |-> changes])
              ELSE W
    IN Call(W1, [op |-> "XConfigureWindow", w |-> e.window,
                 value_mask |-> e.value_mask, changes |-> changes])

draw_window_decoration(W, w, ctx) ==
    Calls(W, << [op |-> "cairo_paint", id |-> ctx], [op |-> "cairo_stroke", id |-> ctx] >>)

\* windows.get(..).unwrap() panics when the first child is no key of the map
on_expose(W, e) ==
    LET tree == XQueryTree(W.server, e.window)
    IN IF tree.status = 0
       THEN W
       ELSE IF Len(tree.children) > 0
            THEN IF Head(tree.children) \in DOMAIN W.windows
                 THEN LET win == W.windows[Head(tree.children)]
                      IN draw_window_decoration(W, win.frame, win.decoration_context)
                 ELSE [W EXCEPT !.pc = "panicked"]
            ELSE W

\* The startup scan: create_window_frame(.., true) for each child of the root, in
\* the order XQueryTree lists them
\* The loop of the startup scan calling create_window_frame(.., false)
RECURSIVE reparent_each_not_early(_, _, _)
reparent_each_not_early(W, children, o) ==
    IF children = <<>> THEN W
    ELSE reparent_each_not_early(create_window_frame(W, Head(children), FALSE, o),
                                 Tail(children), o)

RECURSIVE reparent_each(_, _, _)
reparent_each(W, children, o) ==
    IF children = <<>> THEN W
    ELSE reparent_each(create_window_frame(W, Head(children), TRUE, o),
                       Tail(children), o)

reparent_initial_windows(W, o) ==
    LET tree == XQueryTree(W.server, Root)
    IN [reparent_each(W, tree.children, o) EXCEPT !.pc = "loop"]

\* The match in main's loop
main_loop(W, e, o) ==
    CASE e.type = "ConfigureRequest" -> on_configure_request(W, e)
      [] e.type = "MapRequest" -> on_map_request(W, e, o)
      [] e.type = "UnmapNotify" -> on_unmap_notify(W, e, o)
      [] e.type = "ButtonPress" -> on_button_press(W, e)
      [] e.type = "ButtonRelease" -> on_button_release(W, e, o)
      [] e.type = "KeyPress" -> on_key_press(W, e, o)
      [] e.type = "Expose" -> on_expose(W, e)
      [] e.type = "MotionNotify" -> on_motion_notify(W, e)
      [] OTHER -> W

\* XNextEvent: the head of the queue, removed from it
XNextEvent(q) == [ev |-> Head(q), queue |-> Tail(q), skipped |-> 0]

\* XCheckTypedWindowEvent searches the whole queue for the first event of the
\* type for the window: its place in the queue, or 0 when there is none
XCheckTypedWindowEvent(q, w, type) ==
    LET hits == {i \in 1..Len(q) : q[i].type = type /\ q[i].window = w}
    IN IF hits = {} THEN 0 ELSE CHOOSE i \in hits : \A j \in hits : i <= j

RemoveAt(q, i) == SubSeq(q, 1, i - 1) \o SubSeq(q, i + 1, Len(q))

\* The while loop of the MotionNotify arm: each matching event is removed from
\* the queue and overwrites ev, until none is left
RECURSIVE skip_pending_motion(_)
skip_pending_motion(n) ==
    LET i == XCheckTypedWindowEvent(n.queue, n.ev.window, "MotionNotify")
    IN IF i = 0
       THEN n
       ELSE skip_pending_motion([ev |-> n.queue[i], queue |-> RemoveAt(n.queue, i),
                                 skipped |-> n.skipped + 1])

\* The loop without the while loop of the MotionNotify arm
main_take_one(q) == XNextEvent(q)

\* What one turn of main's loop takes from the queue: the event it hands to the
\* handler, the queue it leaves, and the number of events it skipped
main_take(q) ==
    LET n == XNextEvent(q)
    IN IF n.ev.type = "MotionNotify" THEN skip_pending_motion(n) ELSE n


----------------------------------------------------------------------------
(* The environment: the events the server delivers and what it answers *)

\* The geometry each client window has when the manager starts
ClientGeometry(c) ==
    IF c = 1 THEN [x |-> 100, y |-> 100, width |-> 200, height |-> 150]
    ELSE [x |-> 40, y |-> 60, width |-> 12, height |-> 30]

\* Pointer positions (x_root, y_root) of button and motion events
PointerAt(i) == IF i = 1 THEN Vec(0, 0) ELSE Vec(1000, 35)

\* A pointer event as it waits in the queue: the fields of XButtonEvent and
\* XMotionEvent the handlers read, and with a button release what the build
\* leaves in active_window when the release is handled
XEvent(type, w, p, st, a) ==
    [type |-> type, window |-> w, x_root |-> PointerAt(p).x, y_root |-> PointerAt(p).y,
     state |-> st, uninit |-> a]

\* What an uninitialized XWindowAttributes may hold: a width the server refuses
\* for the container, or one it accepts
GarbageAttrs(i) ==
    [x |-> 0, y |-> 0, width |-> IF i = 1 THEN 0 - (DECORATION_PADDING * 2) ELSE 1,
     height |-> 1, override_redirect |-> FALSE, viewable |-> FALSE]

\* The answers a handler gets and does not control: where a moved map value
\* lands, what uninitialized memory holds, whether the server can allocate, and
\* the reply to XGetWMProtocols
Answers(lands, garbage, alloc, uninit, status, has_delete_atom) ==
    [lands |-> lands, garbage |-> garbage, alloc_ok |-> alloc, uninit |-> uninit,
     protocols |-> [status |-> status, has_delete_atom |-> has_delete_atom],
     tree_ok |-> TRUE]

NoAnswers == Answers(Dangling, GarbageAttrs(1), TRUE, NullPtr, 0, FALSE)

----------------------------------------------------------------------------
(* History of the current gesture, for the statements about gestures *)

\* open: a press on a managed window was handled and no release since.
\* pure: since that press only motion events (and events the loop ignores) came;
\* then w, p0, o0, s0 are the pressed window, the pointer position of the press
\* and the container's position and size at the press, and last is the latest
\* motion on w with the modifier held that asked for a move or a resize.
NoGesture == [open |-> FALSE, pure |-> FALSE]
BrokenGesture == [open |-> TRUE, pure |-> FALSE]

IsIgnoredType(t) ==
    \/ t = "ConfigureNotify" \/ t = "CreateNotify" \/ t = "DestroyNotify"
    \/ t = "ReparentNotify" \/ t = "MapNotify" \/ t = "KeyRelease" \/ t = "FocusIn"

NextGesture(W, e) ==
    CASE e.type = "ButtonPress" ->
            IF e.window \in DOMAIN W.windows
            THEN LET f == W.server.win[W.windows[e.window].frame]
                 IN [open |-> TRUE, pure |-> TRUE, w |-> e.window,
                     p0 |-> Vec(e.x_root, e.y_root), o0 |-> Vec(f.x, f.y),
                     s0 |-> Vec(f.width, f.height),
                     last |-> [kind |-> "none", at |-> Vec(e.x_root, e.y_root)]]
            ELSE IF gesture.open THEN BrokenGesture ELSE NoGesture
      [] e.type = "ButtonRelease" -> NoGesture
      [] e.type = "MotionNotify" ->
            IF gesture.pure /\ e.window = gesture.w /\ And(e.state, Mod1Mask) /= 0
            THEN IF And(e.state, Button1Mask) /= 0
                 THEN [gesture EXCEPT !.last = [kind |-> "move",
                                                 at |-> Vec(e.x_root, e.y_root)]]
                 ELSE IF And(e.state, Button3Mask) /= 0
                      THEN [gesture EXCEPT !.last = [kind |-> "resize",
                                                     at |-> Vec(e.x_root, e.y_root)]]
                      ELSE gesture
            ELSE gesture
      [] IsIgnoredType(e.type) -> gesture
      [] OTHER -> IF gesture.open THEN BrokenGesture ELSE NoGesture

----------------------------------------------------------------------------
(* The state machine *)

\* The state main has built before the startup scan, over the windows that exist
\* then: Mapped and Override are the sets their map state and override_redirect
\* attribute are drawn from.
InitWith(Mapped, Override) ==
    /\ windows = [k \in {} |-> 0]
    /\ drag_start = Vec(0, 0)
    /\ active_window \in {NullPtr, Dangling}
    /\ pc = "start"
    /\ \E mapped \in [Clients -> Mapped], override \in [Clients -> Override] :
         server = [win |-> [w \in 1..(NClients + MaxFrames) |->
                              IF w \in Clients
                              THEN [state |-> "live", parent |-> Root,
                                    x |-> ClientGeometry(w).x, y |-> ClientGeometry(w).y,
                                    width |-> ClientGeometry(w).width,
                                    height |-> ClientGeometry(w).height,
                                    mapped |-> mapped[w],
                                    override_redirect |-> override[w]]
                              ELSE NoWindow("unborn")],
                   save_set |-> {},
                   stack |-> SeqOfSet(Clients),
                   focus |-> PointerRoot]
    /\ cairo = [f \in FrameIds |-> [surface |-> "none", context |-> "none"]]
    /\ ev = [type |-> "none", window |-> Root, event |-> Root,
             keycode |-> "none", state |-> 0]
    /\ cmds = <<>>
    /\ gesture = NoGesture
    /\ presses = 0
    /\ queue = <<>>
    /\ delivered = 0
    /\ taken = [ev |-> XEvent("none", Root, 1, 0, NullPtr), skipped |-> 0]
    /\ strict = World

Init == InitWith(BOOLEAN, {FALSE})

Commit(W) ==
    /\ windows' = W.windows
    /\ drag_start' = W.drag_start
    /\ active_window' = W.active_window
    /\ pc' = W.pc
    /\ server' = W.server
    /\ cairo' = W.cairo
    /\ cmds' = W.cmds

\* One turn of main's loop: XNextEvent returned e
Dispatch(e, o) ==
    /\ pc = "loop"
    /\ Commit(main_loop(World, e, o))
    /\ ev' = [type |-> e.type, window |-> e.window,
              event |-> IF e.type = "UnmapNotify" THEN e.event ELSE Root,
              keycode |-> IF e.type = "KeyPress" THEN e.keycode ELSE "none",
              state |-> IF e.type = "KeyPress" THEN e.state ELSE 0]
    /\ gesture' = NextGesture(World, e)
    /\ UNCHANGED <<queue, delivered, taken, strict>>

Unborn == {f \in FrameIds : server.win[f].state = "unborn"}

Scan(Allocs) ==
    /\ pc = "start"
    /\ Cardinality(Unborn) >= Len(server.stack)
    /\ \E lands \in Pointers, alloc \in Allocs :
         Commit(reparent_initial_windows(World,
                    Answers(lands, GarbageAttrs(1), alloc, NullPtr, 0, FALSE)))
    /\ ev' = [type |-> "startup", window |-> Root, event |-> Root,
              keycode |-> "none", state |-> 0]
    /\ UNCHANGED <<gesture, presses, queue, delivered, taken>>

Startup(Allocs) == Scan(Allocs) /\ UNCHANGED strict

MapRequest(Ws) ==
    \E w \in Ws, lands \in Pointers, g \in 1..2, alloc \in BOOLEAN :
        /\ Unborn /= {}
        /\ Dispatch([type |-> "MapRequest", window |-> w],
                    Answers(lands, GarbageAttrs(g), alloc, NullPtr, 0, FALSE))
        /\ UNCHANGED presses

UnmapNotify(Ws) ==
    \E w \in Ws, lands \in Pointers :
      \E from \in {Root, server.win[w].parent} :
        /\ Dispatch([type |-> "UnmapNotify", window |-> w, event |-> from],
                    Answers(lands, GarbageAttrs(1), TRUE, NullPtr, 0, FALSE))
        /\ UNCHANGED presses

\* A press that can open a gesture counts against MaxGestures when the pointer can
\* move (more than one position): each gesture then adds new geometry.
ButtonPress(Ws, Ps) ==
    \E w \in Ws, p \in Ps :
        LET counted == w \in DOMAIN windows /\ Cardinality(Ps) > 1
        IN /\ counted => presses < MaxGestures
           /\ Dispatch([type |-> "ButtonPress", window |-> w,
                        x_root |-> PointerAt(p).x, y_root |-> PointerAt(p).y], NoAnswers)
           /\ presses' = IF counted THEN presses + 1 ELSE presses

ButtonRelease(Ws) ==
    \E w \in Ws, a \in {NullPtr, Dangling} \cup DOMAIN windows :
        /\ Dispatch([type |-> "ButtonRelease", window |-> w],
                    Answers(Dangling, GarbageAttrs(1), TRUE, a, 0, FALSE))
        /\ UNCHANGED presses

MotionNotify(Ws, Ps, States) ==
    \E w \in Ws, p \in Ps, st \in States :
        /\ Dispatch([type |-> "MotionNotify", window |-> w,
                     x_root |-> PointerAt(p).x, y_root |-> PointerAt(p).y, state |-> st],
                    NoAnswers)
        /\ UNCHANGED presses

KeyPress(Ws, Keys, States) ==
    \E w \in Ws, k \in Keys, st \in States, status \in 0..1, del \in BOOLEAN :
        /\ status = 0 => ~del
        /\ Dispatch([type |-> "KeyPress", window |-> w, keycode |-> k, state |-> st],
                    Answers(Dangling, GarbageAttrs(1), TRUE, NullPtr, status, del))
        /\ UNCHANGED presses

ConfigureRequest(Ws, Masks) ==
    \E w \in Ws, m \in Masks :
        /\ Dispatch([type |-> "ConfigureRequest", window |-> w, x |-> 5, y |-> 7,
                     width |-> 40, height |-> 60, value_mask |-> m], NoAnswers)
        /\ UNCHANGED presses

Expose(Ws) ==
    \E w \in Ws :
        /\ Dispatch([type |-> "Expose", window |-> w], NoAnswers)
        /\ UNCHANGED presses

Ignored(Types) ==
    \E t \in Types :
        /\ Dispatch([type |-> t, window |-> Root], NoAnswers)
        /\ UNCHANGED presses

Next ==
    \/ Startup(BOOLEAN)
    \/ MapRequest(Clients)
    \/ UnmapNotify(Clients)
    \/ ButtonPress(Clients, {1})
    \/ ButtonRelease(Clients)
    \/ MotionNotify(Clients, {1}, {Mod1Mask + Button1Mask})
    \/ KeyPress(Clients, {"XK_F4"}, {Mod1Mask})
    \/ Expose(WindowIds)
    \/ Ignored({"MapNotify", "FocusIn"})

Spec == Init /\ [][Next]_vars

\* The gestures alone: the pointer moves, buttons and modifier vary, and the
\* registry is what the startup scan left.
NextDrag ==
    \/ Startup(BOOLEAN)
    \/ ButtonPress(Clients, 1..2)
    \/ ButtonRelease(Clients)
    \/ MotionNotify(Clients, 1..2,
                    {Button1Mask, Mod1Mask + Button1Mask, Mod1Mask + Button3Mask,
                     Mod1Mask + Button1Mask + Button3Mask})
    \/ Ignored({"ConfigureNotify"})

SpecDrag == Init /\ [][NextDrag]_vars

\* The life of the frames alone: windows are framed, unframed and killed, and a
\* button press may have made one of them the target.
NextLife ==
    \/ Startup(BOOLEAN)
    \/ MapRequest(Clients)
    \/ UnmapNotify(Clients)
    \/ ButtonPress(Clients, {1})
    \/ KeyPress(Clients, {"XK_F4"}, {Mod1Mask})

SpecLife == Init /\ [][NextLife]_vars

\* The startup scan over windows of every kind: mapped or not, override-redirect
\* or not
InitScan == InitWith(BOOLEAN, BOOLEAN)

NextScan ==
    \/ Startup(BOOLEAN)
    \/ UnmapNotify(Clients)
    \/ Expose(FrameIds)

SpecScan == InitScan /\ [][NextScan]_vars

\* The keyboard: the close binding and the other keys, with and without the
\* modifier, on the root and on the clients
NextKeys ==
    \/ Startup(BOOLEAN)
    \/ KeyPress(Root..NClients, {"XK_F4", "XK_Tab"}, {0, Mod1Mask})
    \/ UnmapNotify(Clients)

SpecKeys == Init /\ [][NextKeys]_vars

\* Configure requests, with value masks that name the position, the size, both or
\* parts of them, among the events of a move gesture
NextConfigure ==
    \/ Startup(BOOLEAN)
    \/ ConfigureRequest(Clients, {CWX, CWY + CWWidth, CWWidth + CWHeight,
                                  CWX + CWY + CWWidth + CWHeight})
    \/ ButtonPress(Clients, {1})
    \/ MotionNotify(Clients, {1}, {Mod1Mask + Button1Mask})

SpecConfigure == Init /\ [][NextConfigure]_vars

\* remove_window_frame called on its own, for any window, registered or not
DestroyFrame(Ws) ==
    \E w \in Ws, lands \in Pointers :
        /\ pc = "loop"
        /\ Commit(remove_window_frame(World, w,
                      Answers(lands, GarbageAttrs(1), TRUE, NullPtr, 0, FALSE)))
        /\ ev' = [type |-> "remove_window_frame", window |-> w, event |-> Root,
                  keycode |-> "none", state |-> 0]
        /\ gesture' = IF gesture.open THEN BrokenGesture ELSE NoGesture
        /\ UNCHANGED <<presses, queue, delivered, taken, strict>>

NextDestroy ==
    \/ Startup(BOOLEAN)
    \/ MapRequest(Clients)
    \/ DestroyFrame(Clients)

SpecDestroy == Init /\ [][NextDestroy]_vars

\* restack_windows called on its own, excluding any window or the root, with the
\* tree query answering or failing; the Tab binding on the root calls it too.
Restack(Ws) ==
    \E w \in Ws, ok \in BOOLEAN :
        /\ pc = "loop"
        /\ Commit(restack_windows(World, w, [NoAnswers EXCEPT !.tree_ok = ok]))
        /\ ev' = [type |-> "restack_windows", window |-> w, event |-> Root,
                  keycode |-> "none", state |-> 0]
        /\ UNCHANGED <<gesture, presses, queue, delivered, taken, strict>>

NextRestack ==
    \/ Startup(BOOLEAN)
    \/ Restack(Root..(NClients + MaxFrames))
    \/ KeyPress(Root..NClients, {"XK_F4", "XK_Tab"}, {Mod1Mask})
    \/ UnmapNotify(Clients)

SpecRestack == Init /\ [][NextRestack]_vars

\* The loop over a queue of pointer events. The server delivers events while
\* the manager is busy, MaxQueue of them in all; each turn of the loop takes from
\* the queue what main takes. strict follows the same events handled one by one
\* as delivered.
StartupQueued(Allocs) == Scan(Allocs) /\ strict' = [World' EXCEPT !.cmds = <<>>]

AnswersOf(e) == Answers(Dangling, GarbageAttrs(1), TRUE, e.uninit, 0, FALSE)

Deliver(e) ==
    /\ pc = "loop"
    /\ strict.pc = "loop"
    /\ delivered < MaxQueue
    /\ queue' = Append(queue, e)
    /\ delivered' = delivered + 1
    /\ strict' = [main_loop(strict, e, AnswersOf(e)) EXCEPT !.cmds = <<>>]
    /\ UNCHANGED <<windows, drag_start, active_window, pc, server, cairo, ev, cmds,
                   gesture, taken>>

DeliverButtonPress(Ws, Ps) ==
    \E w \in Ws, p \in Ps :
        /\ presses < MaxGestures
        /\ Deliver(XEvent("ButtonPress", w, p, 0, NullPtr))
        /\ presses' = presses + 1

DeliverButtonRelease(Ws) ==
    \E w \in Ws, a \in {NullPtr, Dangling} \cup DOMAIN windows :
        /\ Deliver(XEvent("ButtonRelease", w, 1, 0, a))
        /\ UNCHANGED presses

DeliverMotionNotify(Ws, Ps, States) ==
    \E w \in Ws, p \in Ps, st \in States :
        /\ Deliver(XEvent("MotionNotify", w, p, st, NullPtr))
        /\ UNCHANGED presses

\* One turn of main's loop over the queue
Take ==
    /\ pc = "loop"
    /\ queue /= <<>>
    /\ LET n == main_take(queue)
       IN /\ Commit(main_loop(World, n.ev, AnswersOf(n.ev)))
          /\ queue' = n.queue
          /\ taken' = [ev |-> n.ev, skipped |-> n.skipped]
          /\ ev' = [type |-> n.ev.type, window |-> n.ev.window, event |-> Root,
                    keycode |-> "none", state |-> 0]
          /\ gesture' = NextGesture(World, n.ev)
    /\ UNCHANGED <<presses, delivered, strict>>

\* Every client is mapped when the manager starts.
InitQueue == InitWith({TRUE}, {FALSE})

NextQueue ==
    \/ StartupQueued(BOOLEAN)
    \/ DeliverButtonPress(Clients, {1})
    \/ DeliverButtonRelease(Clients)
    \/ DeliverMotionNotify(Clients, 1..2, {Button1Mask, Mod1Mask + Button1Mask})
    \/ Take

SpecQueue == InitQueue /\ [][NextQueue]_vars

----------------------------------------------------------------------------
(* The registry and the frames *)

FrameOf(k) == windows[k].frame

\* The container windows and cairo objects the manager made and has not destroyed
LiveFrames ==
    {f \in FrameIds : \/ server.win[f].state = "live"
                      \/ cairo[f].surface = "live"
                      \/ cairo[f].context = "live"}

\* C1: every key of the registry has one live frame of its own (a live container
\* with a live surface and a live context), and every live container, surface or
\* context is the frame of some key of the registry: nothing is orphaned.
C1_RegistryInvariant ==
    /\ \A k \in DOMAIN windows :
         /\ server.win[FrameOf(k)].state = "live"
         /\ cairo[FrameOf(k)].surface = "live"
         /\ cairo[FrameOf(k)].context = "live"
         /\ \A j \in DOMAIN windows : FrameOf(j) = FrameOf(k) => j = k
    /\ \A f \in LiveFrames : \E k \in DOMAIN windows : FrameOf(k) = f

\* C3: active_window addresses the value of a registered window only while a
\* gesture is open, that is after a button press on a managed window was handled
\* and before the next button release is handled.
C3_TargetOnlyDuringGesture == active_window \in DOMAIN windows => gesture.open

\* C5: a map request for a window that is already a key of the registry leaves the
\* registry, every container window and every cairo object as they were (no second
\* frame is made), and the loop goes on.
C5_DuplicateMapRequestIgnored ==
    [][(ev'.type = "MapRequest" /\ ev'.window \in DOMAIN windows)
          => /\ windows' = windows
             /\ \A f \in FrameIds : server'.win[f] = server.win[f]
             /\ cairo' = cairo
             /\ pc' = "loop"]_vars

\* C6: when the attribute query of create_window_frame fails (the window is gone)
\* or the server refuses to create the container, a map request for an unmanaged
\* window leaves the registry unchanged: the window stays unmanaged.
C6_FailedCreationNotRegistered ==
    [][(/\ ev'.type = "MapRequest"
        /\ ev'.window \notin DOMAIN windows
        /\ \/ ~Live(server, ev'.window)
           \/ server'.win[NextId(server)].state = "failed")
          => windows' = windows]_vars

\* C7: whatever event the loop takes, in whatever state, its handler returns and
\* the loop waits for the next event: the manager never terminates on an event.
C7_NoEventTerminates == pc /= "panicked"

\* C9: when the frame of the window a button press made the target of the
\* gesture is torn down (its key leaves the registry), active_window is reset to
\* none.
C9_TeardownResetsTarget ==
    [][(/\ gesture.pure
        /\ active_window = gesture.w
        /\ gesture.w \notin DOMAIN windows')
          => active_window' = NullPtr]_vars

----------------------------------------------------------------------------
(* Gestures *)

\* The pointer's displacement since the press that opened the gesture
GestureDelta == VSub(gesture.last.at, gesture.p0)

\* C2: after a button press on a managed window at P0, with its container at O0,
\* and then only motion events, the container is at O0 + (Pn - P0) after each
\* motion Pn on that window that has the modifier and the primary button held.
C2_GestureCorrectness ==
    (/\ gesture.pure
     /\ gesture.last.kind = "move"
     /\ server.win[FrameOf(gesture.w)].state = "live")
        => LET f == server.win[FrameOf(gesture.w)]
           IN Vec(f.x, f.y) = VAdd(gesture.o0, GestureDelta)

\* A gesture has moved a container away from where it was at the press.
C2_Witness ==
    /\ gesture.pure
    /\ gesture.last.kind = "move"
    /\ gesture.last.at /= gesture.p0
    /\ server.win[FrameOf(gesture.w)].state = "live"
    /\ server.win[FrameOf(gesture.w)].x = gesture.o0.x + 1000

\* C4: after a resize motion of a gesture the client's size is, in each dimension
\* on its own, the size recorded at the press plus the pointer's displacement,
\* but at least 10.
C4_ResizeFloor ==
    (gesture.pure /\ gesture.last.kind = "resize")
        => LET c == server.win[gesture.w]
               want == VAdd(gesture.s0, GestureDelta)
           IN /\ c.width = (IF want.x < 10 THEN 10 ELSE want.x)
              /\ c.height = (IF want.y < 10 THEN 10 ELSE want.y)
              /\ c.width >= 10
              /\ c.height >= 10

\* A resize by a highly negative delta: the width is held at the floor while the
\* height, still above it, follows the pointer.
C4_Witness ==
    /\ gesture.pure
    /\ gesture.last.kind = "resize"
    /\ GestureDelta.x = 0 - 1000
    /\ server.win[gesture.w].width = 10
    /\ server.win[gesture.w].height = gesture.s0.y + GestureDelta.y
    /\ server.win[gesture.w].height > 10

\* C8: while a gesture is open, a motion event for a window other than the one
\* active_window addresses changes no window's position or size.
C8_DragIsolation ==
    [][(/\ gesture.open
        /\ active_window \in DOMAIN windows
        /\ ev'.type = "MotionNotify"
        /\ ev'.window /= active_window)
          => server'.win = server.win]_vars

\* During a gesture on one managed window a motion event came for another
\* managed window.
C8_Witness ==
    /\ gesture.pure
    /\ active_window = gesture.w
    /\ ev.type = "MotionNotify"
    /\ ev.window /= gesture.w
    /\ ev.window \in DOMAIN windows
    /\ cmds = <<>>

----------------------------------------------------------------------------
(* Unmap notifications *)

\* C10: an UnmapNotify for a managed window whose event field is the root leaves
\* the registry, the server's windows and the cairo objects as they were; one
\* whose event field is another window destroys the frame's container, surface
\* and context and removes the key from the registry.
C10_UnmapNotify ==
    [][(ev'.type = "UnmapNotify" /\ ev'.window \in DOMAIN windows)
          => IF ev'.event = Root
             THEN /\ windows' = windows
                  /\ server' = server
                  /\ cairo' = cairo
             ELSE /\ ev'.window \notin DOMAIN windows'
                  /\ DOMAIN windows' = DOMAIN windows \ {ev'.window}
                  /\ server'.win[FrameOf(ev'.window)].state /= "live"
                  /\ cairo'[FrameOf(ev'.window)].surface /= "live"
                  /\ cairo'[FrameOf(ev'.window)].context /= "live"]_vars

\* An UnmapNotify from the root has just been ignored for a managed window whose
\* frame is intact, after the frame of another window was torn down.
C10_Witness ==
    /\ ev.type = "UnmapNotify"
    /\ ev.event = Root
    /\ ev.window \in DOMAIN windows
    /\ server.win[FrameOf(ev.window)].state = "live"
    /\ cmds = <<>>
    /\ \E f \in FrameIds : server.win[f].state = "destroyed"

----------------------------------------------------------------------------
(* Teardown *)

\* C11: remove_window_frame for a window that is no key of the registry (a second
\* call for the same window included) makes no Xlib or cairo call, leaves the
\* registry and the cairo objects as they were, and returns.
C11_DestroyFrameIdempotent ==
    [][(ev'.type = "remove_window_frame" /\ ev'.window \notin DOMAIN windows)
          => /\ cmds' = <<>>
             /\ windows' = windows
             /\ cairo' = cairo
             /\ server' = server
             /\ active_window' = active_window
             /\ pc' = "loop"]_vars

\* remove_window_frame was called for a window that an earlier call had already
\* unframed (it is back on the root at (0, 0)), and did nothing.
C11_Witness ==
    /\ ev.type = "remove_window_frame"
    /\ ev.window \notin DOMAIN windows
    /\ cmds = <<>>
    /\ server.win[ev.window].parent = Root
    /\ server.win[ev.window].x = 0
    /\ server.win[ev.window].y = 0
    /\ \E f \in FrameIds : server.win[f].state = "destroyed"

----------------------------------------------------------------------------
(* Framing *)

\* C12: a map request for an existing, unmanaged window with geometry (x, y, w, h),
\* whose container the server creates, leaves a container at (x, y) of size
\* (w + 20, h + 20), the window inside it at (10, 10), both mapped, and the window
\* a key of the registry whose frame is that container.
C12_MapRequestFrames ==
    [][(/\ ev'.type = "MapRequest"
        /\ ev'.window \notin DOMAIN windows
        /\ Live(server, ev'.window)
        /\ server'.win[NextId(server)].state = "live")
          => LET c == ev'.window
                 before == server.win[c]
                 f == NextId(server)
             IN /\ c \in DOMAIN windows'
                /\ windows'[c].frame = f
                /\ DOMAIN windows' = DOMAIN windows \cup {c}
                /\ server'.win[f].x = before.x
                /\ server'.win[f].y = before.y
                /\ server'.win[f].width = before.width + 20
                /\ server'.win[f].height = before.height + 20
                /\ server'.win[f].parent = Root
                /\ server'.win[f].mapped
                /\ server'.win[c].parent = f
                /\ server'.win[c].x = 10
                /\ server'.win[c].y = 10
                /\ server'.win[c].width = before.width
                /\ server'.win[c].height = before.height
                /\ server'.win[c].mapped]_vars

\* The map request of the window of geometry (100, 100, 200, 150) has been
\* handled: its container is at (100, 100) with size (220, 170).
C12_Witness ==
    /\ ev.type = "MapRequest"
    /\ ev.window = 1
    /\ cmds /= <<>>
    /\ Head(cmds).op = "XCreateWindow"
    /\ 1 \in DOMAIN windows
    /\ server.win[FrameOf(1)].state = "live"
    /\ server.win[FrameOf(1)].x = 100
    /\ server.win[FrameOf(1)].y = 100
    /\ server.win[FrameOf(1)].width = 220
    /\ server.win[FrameOf(1)].height = 170
    /\ server.win[1].parent = FrameOf(1)
    /\ server.win[1].x = 10
    /\ server.win[1].y = 10

\* The windows the startup scan passes over: override-redirect, or not viewable
Skipped == {c \in Clients : server.win[c].override_redirect \/ ~IsViewable(server, c)}

\* C13: the startup scan over the N top-level windows, M of them override-redirect
\* or not viewable, creates N - M containers (when the server creates each one it
\* is asked for): the N - M other windows are the keys of the registry, each in a
\* container of its own, and the M skipped windows are as they were.
C13_StartupScan ==
    [][(ev'.type = "startup" /\ \A f \in FrameIds : server'.win[f].state /= "failed")
          => /\ DOMAIN windows' = Clients \ Skipped
             /\ Cardinality({f \in FrameIds : server'.win[f].state = "live"})
                  = NClients - Cardinality(Skipped)
             /\ \A c \in Clients \ Skipped :
                  /\ server'.win[windows'[c].frame].state = "live"
                  /\ server'.win[c].parent = windows'[c].frame
                  /\ \A d \in Clients \ Skipped :
                       windows'[d].frame = windows'[c].frame => d = c
             /\ \A c \in Skipped :
                  /\ server'.win[c] = server.win[c]
                  /\ c \notin server'.save_set]_vars

\* After the scan one window is framed and another, mapped but override-redirect,
\* was passed over.
C13_Witness ==
    /\ ev.type = "startup"
    /\ \E a, b \in Clients :
         /\ a \in DOMAIN windows
         /\ server.win[a].parent = FrameOf(a)
         /\ b \notin DOMAIN windows
         /\ server.win[b].override_redirect
         /\ server.win[b].mapped
         /\ server.win[b].parent = Root

----------------------------------------------------------------------------
(* The close binding *)

\* The calls of the last handler with the given name
CallsOf(op) == SelectSeq(cmds, LAMBDA c : c.op = op)

\* C14: a key press of XK_F4 with Mod1 held on a managed window C asks for C's
\* WM_PROTOCOLS and then makes exactly one more call: XSendEvent of
\* WM_DELETE_WINDOW to C (and no XKillClient) when the reply holds
\* WM_DELETE_WINDOW, XKillClient of C (and no XSendEvent) when it does not or
\* the query fails.
C14_CloseBinding ==
    (/\ ev.type = "KeyPress"
     /\ ev.keycode = "XK_F4"
     /\ And(ev.state, Mod1Mask) /= 0
     /\ ev.window \in DOMAIN windows)
        => LET reply == Head(cmds).reply
               advertised == reply.status /= 0 /\ reply.has_delete_atom
           IN /\ cmds /= <<>>
              /\ Head(cmds).op = "XGetWMProtocols"
              /\ Head(cmds).w = ev.window
              /\ Len(cmds) = 2
              /\ IF advertised
                 THEN /\ CallsOf("XKillClient") = <<>>
                      /\ CallsOf("XSendEvent") =
                            << [op |-> "XSendEvent", w |-> ev.window,
                                message_type |-> "WM_PROTOCOLS",
                                data |-> "WM_DELETE_WINDOW"] >>
                 ELSE /\ CallsOf("XSendEvent") = <<>>
                      /\ CallsOf("XKillClient") =
                            << [op |-> "XKillClient", w |-> ev.window] >>

\* The close binding was pressed on a live managed window that advertises
\* WM_DELETE_WINDOW, and the message went out.
C14_Witness ==
    /\ ev.type = "KeyPress"
    /\ ev.keycode = "XK_F4"
    /\ ev.state = Mod1Mask
    /\ ev.window \in DOMAIN windows
    /\ Live(server, ev.window)
    /\ CallsOf("XSendEvent") /= <<>>
    /\ CallsOf("XKillClient") = <<>>

\* C15: a teardown (by an UnmapNotify for a managed window, or by
\* remove_window_frame) destroys the surface and the context once and makes each
\* of the server's teardown calls once: unmap the container, reparent the window
\* to the root, remove it from the save-set, destroy the container.
C15_TeardownOnce ==
    (/\ ev.type = "UnmapNotify" \/ ev.type = "remove_window_frame"
     /\ cmds /= <<>>)
        => /\ Len(CallsOf("cairo_surface_destroy")) = 1
           /\ Len(CallsOf("cairo_destroy")) = 1
           /\ Len(CallsOf("XUnmapWindow")) = 1
           /\ Len(CallsOf("XReparentWindow")) = 1
           /\ Len(CallsOf("XRemoveFromSaveSet")) = 1
           /\ Len(CallsOf("XDestroyWindow")) = 1

\* The server after the calls cs, made one after the other
RECURSIVE Replay(_, _)
Replay(s, cs) ==
    IF cs = <<>> THEN s
    ELSE LET t == XApply(s, Head(cs))
         IN \* each call is applied before the next one is looked at; no call
            \* changes the set of window ids
            IF DOMAIN t.win = DOMAIN s.win THEN Replay(t, Tail(cs)) ELSE t

\* The place of the first call named op among cs, 0 when there is none
FirstCall(cs, op) ==
    IF \E i \in 1..Len(cs) : cs[i].op = op
    THEN CHOOSE i \in 1..Len(cs) :
            /\ cs[i].op = op
            /\ \A j \in 1..(i - 1) : cs[j].op /= op
    ELSE 0

\* No existing client window is a child of a container that does not exist.
NoneAttachedToDestroyed(s) ==
    \A c \in Clients :
        (s.win[c].state = "live" /\ s.win[c].parent /= Root)
            => s.win[s.win[c].parent].state = "live"

\* C16: after each single call of every handler no client window is attached to a
\* destroyed container; in a teardown the window is reparented to the root before
\* the container is destroyed, the window outlives it, and the key has left the
\* registry only when the container is gone.
C16_TeardownOrder ==
    [][/\ \A n \in 0..Len(cmds') :
            NoneAttachedToDestroyed(Replay(server, SubSeq(cmds', 1, n)))
       /\ Replay(server, cmds') = server'
       /\ (ev'.type = "UnmapNotify" /\ cmds' /= <<>>)
            => /\ FirstCall(cmds', "XReparentWindow") > 0
               /\ FirstCall(cmds', "XReparentWindow") < FirstCall(cmds', "XDestroyWindow")
               /\ cmds'[FirstCall(cmds', "XReparentWindow")].w = ev'.window
               /\ cmds'[FirstCall(cmds', "XReparentWindow")].parent = Root
               /\ cmds'[FirstCall(cmds', "XDestroyWindow")].w = FrameOf(ev'.window)
               /\ Live(server, ev'.window) => Live(server', ev'.window)
               /\ ev'.window \notin DOMAIN windows'
               /\ server'.win[FrameOf(ev'.window)].state /= "live"]_vars

\* A teardown has destroyed a container and its window is alive on the root.
C16_Witness ==
    /\ ev.type = "UnmapNotify"
    /\ cmds /= <<>>
    /\ ev.window \notin DOMAIN windows
    /\ server.win[ev.window].state = "live"
    /\ server.win[ev.window].parent = Root
    /\ server.win[cmds[FirstCall(cmds, "XDestroyWindow")].w].state = "destroyed"

----------------------------------------------------------------------------
(* Geometry *)

\* C17: every managed window that sits in its container is at (10, 10) in it,
\* whatever events have been handled.
C17_ClientOffset ==
    \A k \in DOMAIN windows :
        (server.win[k].state = "live" /\ server.win[k].parent = FrameOf(k))
            => server.win[k].x = 10 /\ server.win[k].y = 10

----------------------------------------------------------------------------
(* Events for other windows during a gesture *)

\* C18: while a gesture is open on window T (a press on T was handled, and since
\* then only motion), a button press, a button release or a motion whose window is
\* not T changes nothing: not active_window, not drag_start, not the drag origin
\* of any registry entry, and no window's geometry or place in the stack.
C18_OthersIgnoredWhileDragging ==
    [][(/\ gesture.pure
        /\ active_window = gesture.w
        /\ \/ ev'.type = "ButtonPress"
           \/ ev'.type = "ButtonRelease"
           \/ ev'.type = "MotionNotify"
        /\ ev'.window /= gesture.w)
          => /\ active_window' = active_window
             /\ drag_start' = drag_start
             /\ windows' = windows
             /\ server' = server]_vars

----------------------------------------------------------------------------
(* Pending motion events *)

IsMotionFor(w, x) == x.type = "MotionNotify" /\ x.window = w

\* The queue without the motion events for window w, the rest in its order
WithoutMotionFor(w, q) == SelectSeq(q, LAMBDA x : ~IsMotionFor(w, x))

\* The motion event for window w queued last
LastMotionFor(w, q) ==
    LET at == {i \in 1..Len(q) : IsMotionFor(w, q[i])}
    IN q[CHOOSE i \in at : \A j \in at : j <= i]

\* C19: when the loop takes a motion event for window w from the queue, every
\* motion event for w in the queue leaves it, the one queued last is handled, once,
\* and no other; every other event stays queued in the order it was delivered. An
\* event of another type is taken alone, from the head of the queue.
C19_MotionCoalescing ==
    [][Len(queue') < Len(queue)
         => LET h == Head(queue)
            IN IF h.type = "MotionNotify"
               THEN LET X == on_motion_notify(World, taken'.ev)
                    IN /\ taken'.ev = LastMotionFor(h.window, queue)
                       /\ queue' = WithoutMotionFor(h.window, queue)
                       /\ taken'.skipped = Len(queue) - Len(queue') - 1
                       /\ windows' = X.windows
                       /\ server' = X.server
                       /\ cmds' = X.cmds
                       /\ active_window' = X.active_window
                       /\ drag_start' = X.drag_start
               ELSE /\ taken'.ev = h
                    /\ queue' = Tail(queue)]_vars

\* The loop took a motion event of a move gesture and skipped an earlier one for
\* the same window at another pointer position; the container went where the
\* last one says, and an event of another type is still queued.
C19_Witness ==
    /\ taken.ev.type = "MotionNotify"
    /\ taken.skipped >= 1
    /\ taken.ev.x_root = PointerAt(2).x
    /\ queue /= <<>>
    /\ Head(queue).type /= "MotionNotify"
    /\ Len(cmds) = 1
    /\ cmds[1].op = "XMoveWindow"

\* C20: once the queue is empty, the registry, the target and anchor of the
\* gesture, and every window's geometry and place in the stack are what they
\* would be had every delivered event been handled on its own, in delivered order.
C20_CoalescingSafe ==
    (pc = "loop" /\ strict.pc = "loop" /\ queue = <<>>)
        => /\ windows = strict.windows
           /\ active_window = strict.active_window
           /\ drag_start = strict.drag_start
           /\ server = strict.server

----------------------------------------------------------------------------
(* Cycling the focus *)

\* C21: restack_windows, excluding window x, raises the first child of the root
\* (in the order the tree query lists them) that is not x and gives it the input
\* focus, and no other window; when there is no such child or the tree query
\* fails, the stacking order and the focus stay as they were. The registry,
\* active_window and drag_start are never changed.
C21_RestackNext ==
    [][(\/ ev'.type = "restack_windows"
        \/ ev'.type = "KeyPress" /\ ev'.window = Root /\ ev'.keycode = "XK_Tab")
          => LET others == SelectSeq(server.stack, LAMBDA n : n /= ev'.window)
             IN /\ windows' = windows
                /\ active_window' = active_window
                /\ drag_start' = drag_start
                /\ server'.win = server.win
                /\ IF cmds'[1].status /= 0 /\ others /= <<>>
                   THEN /\ server'.stack = Append(Remove(server.stack, Head(others)),
                                                  Head(others))
                        /\ server'.focus = Head(others)
                   ELSE /\ server'.stack = server.stack
                        /\ server'.focus = server.focus]_vars

====
